---- MODULE Spec2Model ----
(***************************************************************************)
(* Learnable fake quantization (torch/quantization/                        *)
(* _learnable_fake_quantize.py): the per-tensor and per-channel autograd   *)
(* kernels and the _LearnableFakeQuantize module that drives them.         *)
(*                                                                         *)
(* Floating-point values are modelled as exact rationals [num, den] in     *)
(* lowest terms; tensors are functions from an index set to rationals      *)
(* (a sequence for a 1-D tensor, a function over <<row, col>> pairs for a  *)
(* 2-D tensor).                                                            *)
(***************************************************************************)
EXTENDS Integers, Sequences, FiniteSets, TLC

VARIABLES
    kpc,        \* position of one kernel call: "idle", "ready", "forwarded", "done"
    args,       \* the arguments of the kernel call (forward's parameters)
    ctx,        \* the autograd context: saved_tensors and other
    X_fq,       \* the tensor forward returned
    grads,      \* what backward received and returned
    mod,        \* the _LearnableFakeQuantize module's attributes
    obs,        \* the observer (activation_post_process) state
    ret         \* the outcome of the last call on the module

vars == <<kpc, args, ctx, X_fq, grads, mod, obs, ret>>

kernelVars == <<kpc, args, ctx, X_fq, grads>>
moduleVars == <<mod, obs, ret>>

None == "none"

------------------------------------------------------------------------------
(* Exact rational arithmetic standing in for floating point.                *)

Abs(x) == IF x < 0 THEN -x ELSE x

RECURSIVE GCD(_, _)
GCD(a, b) == IF b = 0 THEN a ELSE GCD(b, a % b)

Rat(n, d) ==
    LET s == IF d < 0 THEN -1 ELSE 1
        g == GCD(Abs(n), Abs(d))
    IN  [num |-> (s * n) \div g, den |-> (s * d) \div g]

RInt(i) == [num |-> i, den |-> 1]
RZero == RInt(0)
ROne == RInt(1)
RHalf == Rat(1, 2)

RAdd(a, b) == Rat(a.num * b.den + b.num * a.den, a.den * b.den)
RNeg(a) == [num |-> -a.num, den |-> a.den]
RSub(a, b) == RAdd(a, RNeg(b))
RMul(a, b) == Rat(a.num * b.num, a.den * b.den)
RDiv(a, b) == Rat(a.num * b.den, a.den * b.num)
RLt(a, b) == a.num * b.den < b.num * a.den
RLe(a, b) == a.num * b.den <= b.num * a.den

\* floor of a rational (den > 0; \div rounds toward minus infinity)
RFloor(a) == a.num \div a.den

\* torch.round: round half to even
RRound(a) ==
    LET f == RFloor(a)
        twice == 2 * (a.num - f * a.den)
    IN  IF twice < a.den THEN f
        ELSE IF twice > a.den THEN f + 1
        ELSE IF f % 2 = 0 THEN f ELSE f + 1

\* int(...) and .type(torch.int64) of a float: truncation toward zero
RTrunc(a) == IF a.num >= 0 THEN a.num \div a.den ELSE -((-a.num) \div a.den)

\* Tensor.clamp(lo, hi) of one element, lo and hi integers
RClamp(a, lo, hi) ==
    IF RLt(a, RInt(lo)) THEN RInt(lo) ELSE IF RLt(RInt(hi), a) THEN RInt(hi) ELSE a

IClamp(q, lo, hi) == IF q < lo THEN lo ELSE IF q > hi THEN hi ELSE q

RECURSIVE SumOver(_, _)
SumOver(T, S) ==
    IF S = {} THEN RZero
    ELSE LET i == CHOOSE j \in S : TRUE
         IN  RAdd(T[i], SumOver(T, S \ {i}))

\* Tensor.sum()
TSum(T) == SumOver(T, DOMAIN T)

------------------------------------------------------------------------------
(* Reference helpers of the module, lines 9-126.                            *)

\* _quantize on one element: round(x * (1.0 / scale) + zp), optionally clamped
quantize_flip(x, scale, zp, q_min, q_max, clamp) ==
    LET xq == RRound(RAdd(RMul(x, scale), RInt(zp)))
    IN  IF clamp THEN IClamp(xq, q_min, q_max) ELSE xq

quantize(x, scale, zp, q_min, q_max, clamp) ==
    LET xq == RRound(RAdd(RMul(x, RDiv(ROne, scale)), RInt(zp)))
    IN  IF clamp THEN IClamp(xq, q_min, q_max) ELSE xq

\* _quantize applied to a tensor
quantize_tensor(X, scale, zp, q_min, q_max, clamp) ==
    [i \in DOMAIN X |-> quantize(X[i], scale, zp, q_min, q_max, clamp)]

\* torch.fake_quantize_per_tensor_affine: dequantize(clamp(round(x/scale + zp)))
fake_quantize_per_tensor_affine(X, scale, zp, q_min, q_max) ==
    [i \in DOMAIN X |->
        LET q == IClamp(RRound(RAdd(RDiv(X[i], scale), RInt(zp))), q_min, q_max)
        IN  RMul(RInt(q - zp), scale)]

\* _calculate_X_grad_per_tensor: dY where q_min <= Xq <= q_max, else 0
calculate_X_grad_per_tensor_strict(grad_Y, X, Xq, scale, zero_point, quant_min, quant_max) ==
    LET mask == [i \in DOMAIN Xq |-> (Xq[i] > quant_min) /\ (Xq[i] < quant_max)]
    IN  [i \in DOMAIN grad_Y |-> IF mask[i] THEN grad_Y[i] ELSE RZero]

calculate_X_grad_per_tensor(grad_Y, X, Xq, scale, zero_point, quant_min, quant_max) ==
    LET mask == [i \in DOMAIN Xq |-> (Xq[i] >= quant_min) /\ (Xq[i] <= quant_max)]
    IN  [i \in DOMAIN grad_Y |-> IF mask[i] THEN grad_Y[i] ELSE RZero]

Indicator(b) == IF b THEN ROne ELSE RZero

\* _calculate_scale_grad; scale and zero_point are given per element
\* (a scalar broadcast, or the per-channel vectors reshaped by axis_mask)
calculate_scale_grad_swapped(grad_X, X, Xfq, X_q, scale, zero_point, q_min, q_max) ==
    [i \in DOMAIN X |->
        LET indicate_small_scale == Indicator(X_q[i] = q_min)
            indicate_big_scale == Indicator(X_q[i] = q_max)
            indicate_middle_scale ==
                RSub(RSub(ROne, indicate_small_scale), indicate_big_scale)
            grad_small_scale == RInt(q_max - zero_point[i])
            grad_big_scale == RInt(q_min - zero_point[i])
            grad_middle_scale == RDiv(RSub(Xfq[i], X[i]), scale[i])
            grad_scale ==
                RAdd(RAdd(RMul(indicate_small_scale, grad_small_scale),
                          RMul(indicate_big_scale, grad_big_scale)),
                     RMul(indicate_middle_scale, grad_middle_scale))
        IN  RMul(grad_scale, grad_X[i])]

calculate_scale_grad(grad_X, X, Xfq, X_q, scale, zero_point, q_min, q_max) ==
    [i \in DOMAIN X |->
        LET indicate_small_scale == Indicator(X_q[i] = q_min)
            indicate_big_scale == Indicator(X_q[i] = q_max)
            indicate_middle_scale ==
                RSub(RSub(ROne, indicate_small_scale), indicate_big_scale)
            grad_small_scale == RInt(q_min - zero_point[i])
            grad_big_scale == RInt(q_max - zero_point[i])
            grad_middle_scale == RDiv(RSub(Xfq[i], X[i]), scale[i])
            grad_scale ==
                RAdd(RAdd(RMul(indicate_small_scale, grad_small_scale),
                          RMul(indicate_big_scale, grad_big_scale)),
                     RMul(indicate_middle_scale, grad_middle_scale))
        IN  RMul(grad_scale, grad_X[i])]

\* _calculate_zero_point_grad
calculate_zero_point_grad_low_only(grad_X, X, Xfq, X_q, scale, zero_point, q_min, q_max) ==
    [i \in DOMAIN X |->
        LET indicate_saturate_zp == Indicator(X_q[i] = q_min)
            indicate_unsaturate_zp == RSub(ROne, indicate_saturate_zp)
            grad_saturate_zp == RNeg(scale[i])
            grad_unsaturate_zp == RZero
            grad_zp ==
                RAdd(RMul(indicate_saturate_zp, grad_saturate_zp),
                     RMul(indicate_unsaturate_zp, grad_unsaturate_zp))
        IN  RMul(grad_zp, grad_X[i])]

calculate_zero_point_grad(grad_X, X, Xfq, X_q, scale, zero_point, q_min, q_max) ==
    [i \in DOMAIN X |->
        LET indicate_saturate_zp ==
                RAdd(Indicator(X_q[i] = q_min), Indicator(X_q[i] = q_max))
            indicate_unsaturate_zp == RSub(ROne, indicate_saturate_zp)
            grad_saturate_zp == RNeg(scale[i])
            grad_unsaturate_zp == RZero
            grad_zp ==
                RAdd(RMul(indicate_saturate_zp, grad_saturate_zp),
                     RMul(indicate_unsaturate_zp, grad_unsaturate_zp))
        IN  RMul(grad_zp, grad_X[i])]

\* a scalar broadcast over the index set of X
Broadcast(X, v) == [i \in DOMAIN X |-> v]

------------------------------------------------------------------------------
(* _LearnableFakeQuantizePerTensorOp, lines 128-166.                        *)

\* line 141: zp_val = int((zero_point + 0.5).clamp(q_min, q_max).item())
forward_zp_val(zero_point, q_min, q_max) ==
    RTrunc(RClamp(RAdd(zero_point, RHalf), q_min, q_max))

\* line 152: zero_point = int((zero_point + 0.5).clamp(q_min, q_max).item())
backward_zero_point(zero_point, q_min, q_max) ==
    RTrunc(RClamp(RAdd(zero_point, RHalf), q_min, q_max))

\* forward(ctx, X, scale, zero_point, q_min, q_max, grad_factor): the context
\* it fills and the tensor it returns
PerTensorForward_no_rounding(X, scale, zero_point, q_min, q_max, grad_factor) ==
    LET scale_val == scale
        zp_val == RTrunc(RClamp(zero_point, q_min, q_max))
        Xfq == fake_quantize_per_tensor_affine(X, scale_val, zp_val, q_min, q_max)
    IN  [saved_tensors |-> [X |-> X, scale |-> scale, zero_point |-> zero_point],
         other |-> [q_min |-> q_min, q_max |-> q_max, X_fq |-> Xfq,
                    grad_factor |-> grad_factor],
         result |-> Xfq]

PerTensorForward(X, scale, zero_point, q_min, q_max, grad_factor) ==
    LET scale_val == scale
        zp_val == forward_zp_val(zero_point, q_min, q_max)
        Xfq == fake_quantize_per_tensor_affine(X, scale_val, zp_val, q_min, q_max)
    IN  [saved_tensors |-> [X |-> X, scale |-> scale, zero_point |-> zero_point],
         other |-> [q_min |-> q_min, q_max |-> q_max, X_fq |-> Xfq,
                    grad_factor |-> grad_factor],
         result |-> Xfq]

\* backward(ctx, grad_Y): (grad_X, grad_scale, grad_zp)
PerTensorBackward_clamp_first(c, grad_Y) ==
    LET X == c.saved_tensors.X
        scale == c.saved_tensors.scale
        q_min == c.other.q_min
        q_max == c.other.q_max
        Xfq == c.other.X_fq
        grad_factor == c.other.grad_factor
        zero_point == backward_zero_point(c.saved_tensors.zero_point, q_min, q_max)
        X_q == quantize_tensor(X, scale, zero_point, q_min, q_max, TRUE)
        grad_X == calculate_X_grad_per_tensor(
                      grad_Y, X, X_q, scale, zero_point, q_min, q_max)
        grad_scale == TSum(calculate_scale_grad(
                          grad_X, X, Xfq, X_q, Broadcast(X, scale),
                          Broadcast(X, zero_point), q_min, q_max))
        grad_zp == TSum(calculate_zero_point_grad(
                       grad_X, X, Xfq, X_q, Broadcast(X, scale),
                       Broadcast(X, zero_point), q_min, q_max))
    IN  [grad_X |-> grad_X,
         grad_scale |-> RMul(grad_scale, grad_factor),
         grad_zp |-> RMul(grad_zp, grad_factor)]

PerTensorBackward(c, grad_Y) ==
    LET X == c.saved_tensors.X
        scale == c.saved_tensors.scale
        q_min == c.other.q_min
        q_max == c.other.q_max
        Xfq == c.other.X_fq
        grad_factor == c.other.grad_factor
        zero_point == backward_zero_point(c.saved_tensors.zero_point, q_min, q_max)
        X_q_unclamped == quantize_tensor(X, scale, zero_point, q_min, q_max, FALSE)
        grad_X == calculate_X_grad_per_tensor(
                      grad_Y, X, X_q_unclamped, scale, zero_point, q_min, q_max)
        X_q == [i \in DOMAIN X |-> IClamp(X_q_unclamped[i], q_min, q_max)]
        grad_scale == TSum(calculate_scale_grad(
                          grad_X, X, Xfq, X_q, Broadcast(X, scale),
                          Broadcast(X, zero_point), q_min, q_max))
        grad_zp == TSum(calculate_zero_point_grad(
                       grad_X, X, Xfq, X_q, Broadcast(X, scale),
                       Broadcast(X, zero_point), q_min, q_max))
    IN  [grad_X |-> grad_X,
         grad_scale |-> RMul(grad_scale, grad_factor),
         grad_zp |-> RMul(grad_zp, grad_factor)]

------------------------------------------------------------------------------
(* _LearnableFakeQuantizePerChannelOp and its helpers, lines 17-68, 168-216. *)
(* An N-D tensor is a function over index tuples; axes are numbered from 0   *)
(* as in the source, tuple positions from 1.                                 *)

Ndim(X) == Len(CHOOSE i \in DOMAIN X : TRUE)

\* X.shape[axis]
SizeAlong(X, axis) == Cardinality({i[axis + 1] : i \in DOMAIN X})

\* Tensor.permute(dims): axis k of the result is axis dims[k] of X
permute(X, dims) ==
    LET n == Len(dims)
        to(i) == [k \in 1..n |-> i[dims[k] + 1]]
        from(j) == [m \in 1..n |-> j[CHOOSE k \in 1..n : dims[k] + 1 = m]]
    IN  [j \in {to(i) : i \in DOMAIN X} |-> X[from(j)]]

\* _permute_to_axis_zero: swap axis `axis` with axis 0
permute_to_axis_zero(X, axis) ==
    LET range == [k \in 1..Ndim(X) |-> k - 1]
        new_axis_list == [[range EXCEPT ![axis + 1] = 0] EXCEPT ![1] = axis]
    IN  [y |-> permute(X, new_axis_list), permute_axis_list |-> new_axis_list]

\* v.reshape(axis_mask) broadcast against X: one entry of v per index along ch_axis
Remask(X, ch_axis, v) == [i \in DOMAIN X |-> v[i[ch_axis + 1]]]

\* _quantize_vectorized
quantize_vectorized(x, ch_axis, scale, zp, q_min, q_max, clamp) ==
    LET scale_remasked == Remask(x, ch_axis, scale)
        zp_remasked == Remask(x, ch_axis, zp)
    IN  [i \in DOMAIN x |->
            LET xq == RRound(RAdd(RMul(x[i], RDiv(ROne, scale_remasked[i])),
                                  RInt(zp_remasked[i])))
            IN  IF clamp THEN IClamp(xq, q_min, q_max) ELSE xq]

\* torch.fake_quantize_per_channel_affine
fake_quantize_per_channel_affine(X, scale, zp, ch_axis, q_min, q_max) ==
    [i \in DOMAIN X |->
        LET s == scale[i[ch_axis + 1]]
            z == zp[i[ch_axis + 1]]
            q == IClamp(RRound(RAdd(RDiv(X[i], s), RInt(z))), q_min, q_max)
        IN  RMul(RInt(q - z), s)]

\* _calculate_X_grad_per_channel
calculate_X_grad_per_channel(dY, X, scale, zero_point, axis, quant_min, quant_max) ==
    LET p == permute_to_axis_zero(X, axis)
        Xp == p.y
        Xq_p == [j \in DOMAIN Xp |->
                    RRound(RAdd(RMul(Xp[j], RDiv(ROne, scale[j[1]])),
                                RInt(zero_point[j[1]])))]
        Xq == permute(Xq_p, p.permute_axis_list)
        mask == [i \in DOMAIN Xq |-> (Xq[i] >= quant_min) /\ (Xq[i] <= quant_max)]
    IN  [i \in DOMAIN dY |-> IF mask[i] THEN dY[i] ELSE RZero]

\* Tensor.sum(axes) of a tensor that keeps one axis: one sum per index of the
\* axis that is not reduced
sum_over_axes(T, axes) ==
    LET kept == CHOOSE k \in 0..(Ndim(T) - 1) : k \notin axes
    IN  [c \in {i[kept + 1] : i \in DOMAIN T} |->
            SumOver(T, {i \in DOMAIN T : i[kept + 1] = c})]

\* lines 177 and 192: ((zero_point + 0.5).clamp(q_min, q_max)).type(torch.int64)
zp_vec_of(zero_point, q_min, q_max) ==
    [c \in DOMAIN zero_point |->
        RTrunc(RClamp(RAdd(zero_point[c], RHalf), q_min, q_max))]

PerChannelForward(X, scale, zero_point, ch_axis, q_min, q_max, grad_factor) ==
    LET scale_vec == scale
        zp_vec == zp_vec_of(zero_point, q_min, q_max)
        Xfq == fake_quantize_per_channel_affine(
                   X, scale_vec, zp_vec, ch_axis, q_min, q_max)
    IN  [saved_tensors |-> [X |-> X, scale |-> scale, zero_point |-> zero_point],
         other |-> [q_min |-> q_min, q_max |-> q_max, X_fq |-> Xfq,
                    ch_axis |-> ch_axis, grad_factor |-> grad_factor],
         result |-> Xfq]

PerChannelBackward_reduce_channel_axis(c, grad_Y) ==
    LET X == c.saved_tensors.X
        q_min == c.other.q_min
        q_max == c.other.q_max
        Xfq == c.other.X_fq
        ch_axis == c.other.ch_axis
        grad_factor == c.other.grad_factor
        scale_vec == c.saved_tensors.scale
        zp_vec == zp_vec_of(c.saved_tensors.zero_point, q_min, q_max)
        grad_X == calculate_X_grad_per_channel(
                      grad_Y, X, scale_vec, zp_vec, ch_axis, q_min, q_max)
        X_q == quantize_vectorized(X, ch_axis, scale_vec, zp_vec, q_min, q_max, TRUE)
        axis_for_reduction == {ch_axis}
        grad_scale == sum_over_axes(
                          calculate_scale_grad(
                              grad_X, X, Xfq, X_q, Remask(X, ch_axis, scale_vec),
                              Remask(X, ch_axis, zp_vec), q_min, q_max),
                          axis_for_reduction)
        grad_zp == sum_over_axes(
                       calculate_zero_point_grad(
                           grad_X, X, Xfq, X_q, Remask(X, ch_axis, scale_vec),
                           Remask(X, ch_axis, zp_vec), q_min, q_max),
                       axis_for_reduction)
    IN  [grad_X |-> grad_X,
         grad_scale |-> [k \in DOMAIN grad_scale |-> RMul(grad_scale[k], grad_factor)],
         grad_zp |-> [k \in DOMAIN grad_zp |-> RMul(grad_zp[k], grad_factor)]]

PerChannelBackward(c, grad_Y) ==
    LET X == c.saved_tensors.X
        q_min == c.other.q_min
        q_max == c.other.q_max
        Xfq == c.other.X_fq
        ch_axis == c.other.ch_axis
        grad_factor == c.other.grad_factor
        scale_vec == c.saved_tensors.scale
        zp_vec == zp_vec_of(c.saved_tensors.zero_point, q_min, q_max)
        grad_X == calculate_X_grad_per_channel(
                      grad_Y, X, scale_vec, zp_vec, ch_axis, q_min, q_max)
        X_q == quantize_vectorized(X, ch_axis, scale_vec, zp_vec, q_min, q_max, TRUE)
        axis_for_reduction == (0..(Ndim(Xfq) - 1)) \ {ch_axis}
        grad_scale == sum_over_axes(
                          calculate_scale_grad(
                              grad_X, X, Xfq, X_q, Remask(X, ch_axis, scale_vec),
                              Remask(X, ch_axis, zp_vec), q_min, q_max),
                          axis_for_reduction)
        grad_zp == sum_over_axes(
                       calculate_zero_point_grad(
                           grad_X, X, Xfq, X_q, Remask(X, ch_axis, scale_vec),
                           Remask(X, ch_axis, zp_vec), q_min, q_max),
                       axis_for_reduction)
    IN  [grad_X |-> grad_X,
         grad_scale |-> [k \in DOMAIN grad_scale |-> RMul(grad_scale[k], grad_factor)],
         grad_zp |-> [k \in DOMAIN grad_zp |-> RMul(grad_zp[k], grad_factor)]]

------------------------------------------------------------------------------
(* Inputs of the kernel calls.                                              *)

\* longest 1-D tensor enumerated exhaustively
MaxLen == 2

XValues == {RInt(-1), Rat(1, 4), Rat(3, 5), RInt(2)}
ScaleValues == {RHalf, ROne, Rat(3, 2)}
ZeroPointValues == {RInt(-2), Rat(-17, 10), RZero, RHalf, ROne, Rat(7, 2)}
QuantRanges == {<<0, 3>>, <<0, 1>>, <<-2, 1>>}
GradFactors == {ROne, RHalf}
GradValues == {ROne, RInt(-2)}

\* the tensor of the concrete scenarios: X = [0.0, 0.4, 0.6, 1.0]
ScenarioX == <<RZero, Rat(2, 5), Rat(3, 5), ROne>>

Tensors1D == UNION {[1..n -> XValues] : n \in 1..MaxLen} \cup {ScenarioX}

\* gradients coming in for a tensor X: every tensor over GradValues for the
\* enumerated lengths, the uniform ones for a longer X
GradsFor(X) ==
    IF Cardinality(DOMAIN X) <= MaxLen THEN [DOMAIN X -> GradValues]
    ELSE {[i \in DOMAIN X |-> g] : g \in GradValues}

\* widest 2-D tensor of the per-channel calls: shapes (2, 1) .. (2, MaxCols)
MaxCols == 3

ChannelXValues == {RInt(-1), Rat(1, 4)}
\* (scale, zero_point) of one channel
ChannelParams == {<<RHalf, ROne>>, <<ROne, Rat(-17, 10)>>, <<ROne, RHalf>>}
ChannelRanges == {<<0, 3>>, <<-2, 1>>}

Index2D(cols) == (1..2) \X (1..cols)
Tensors2D == UNION {[Index2D(n) -> ChannelXValues] : n \in 1..MaxCols}

\* per-channel parameters for n channels: odd channels take a, even ones b
ParamVectors(n) ==
    {[c \in 1..n |-> IF c % 2 = 1 THEN a ELSE b] : a, b \in ChannelParams}

\* gradients coming in for a 2-D tensor: uniform, or alternating in sign
ChannelGradsFor(X) ==
    {[i \in DOMAIN X |-> ROne],
     [i \in DOMAIN X |-> IF (i[1] + i[2]) % 2 = 0 THEN ROne ELSE RInt(-2)]}

NoModule == [status |-> "unconstructed", error |-> None, ctor |-> None, attrs |-> None]
NoObserver == [seen |-> FALSE, min_val |-> RZero, max_val |-> RZero]
NoCall == [call |-> None]

KernelIdle ==
    /\ kpc = "idle" /\ args = None /\ ctx = None /\ X_fq = None /\ grads = None

ModuleIdle ==
    /\ mod = NoModule /\ obs = NoObserver /\ ret = NoCall

------------------------------------------------------------------------------
(* One call of the per-tensor kernel: forward, then backward.               *)

KernelInit ==
    /\ kpc = "ready"
    /\ \E X \in Tensors1D, s \in ScaleValues, z \in ZeroPointValues,
          r \in QuantRanges, f \in GradFactors :
        args = [X |-> X, scale |-> s, zero_point |-> z,
                q_min |-> r[1], q_max |-> r[2], grad_factor |-> f]
    /\ ctx = None
    /\ X_fq = None
    /\ grads = None
    /\ ModuleIdle

PerTensorOpForward ==
    /\ kpc = "ready"
    /\ "ch_axis" \notin DOMAIN args
    /\ \E r \in {PerTensorForward(args.X, args.scale, args.zero_point,
                                  args.q_min, args.q_max, args.grad_factor)} :
           /\ ctx' = [saved_tensors |-> r.saved_tensors, other |-> r.other]
           /\ X_fq' = r.result
    /\ kpc' = "forwarded"
    /\ UNCHANGED <<args, grads, moduleVars>>

PerTensorOpBackward ==
    /\ kpc = "forwarded"
    /\ "ch_axis" \notin DOMAIN args
    /\ \E grad_Y \in GradsFor(ctx.saved_tensors.X) :
        \E g \in {PerTensorBackward(ctx, grad_Y)} :
            grads' = [grad_Y |-> grad_Y, grad_X |-> g.grad_X,
                      grad_scale |-> g.grad_scale, grad_zp |-> g.grad_zp]
    /\ kpc' = "done"
    /\ UNCHANGED <<args, ctx, X_fq, moduleVars>>

KernelNext == PerTensorOpForward \/ PerTensorOpBackward

KernelSpec == KernelInit /\ [][KernelNext]_vars

------------------------------------------------------------------------------
(* One call of the per-channel kernel: forward, then backward.              *)

ChannelInit ==
    /\ kpc = "ready"
    /\ \E X \in Tensors2D, k \in {0, 1}, r \in ChannelRanges :
        \E v \in ParamVectors(SizeAlong(X, k)) :
            args = [X |-> X,
                    scale |-> [c \in DOMAIN v |-> v[c][1]],
                    zero_point |-> [c \in DOMAIN v |-> v[c][2]],
                    ch_axis |-> k, q_min |-> r[1], q_max |-> r[2],
                    grad_factor |-> RHalf]
    /\ ctx = None
    /\ X_fq = None
    /\ grads = None
    /\ ModuleIdle

PerChannelOpForward ==
    /\ kpc = "ready"
    /\ "ch_axis" \in DOMAIN args
    /\ \E r \in {PerChannelForward(args.X, args.scale, args.zero_point, args.ch_axis,
                                   args.q_min, args.q_max, args.grad_factor)} :
           /\ ctx' = [saved_tensors |-> r.saved_tensors, other |-> r.other]
           /\ X_fq' = r.result
    /\ kpc' = "forwarded"
    /\ UNCHANGED <<args, grads, moduleVars>>

PerChannelOpBackward ==
    /\ kpc = "forwarded"
    /\ "ch_axis" \in DOMAIN args
    /\ \E grad_Y \in ChannelGradsFor(ctx.saved_tensors.X) :
        \E g \in {PerChannelBackward(ctx, grad_Y)} :
            grads' = [grad_Y |-> grad_Y, grad_X |-> g.grad_X,
                      grad_scale |-> g.grad_scale, grad_zp |-> g.grad_zp]
    /\ kpc' = "done"
    /\ UNCHANGED <<args, ctx, X_fq, moduleVars>>

ChannelNext == PerChannelOpForward \/ PerChannelOpBackward

ChannelSpec == ChannelInit /\ [][ChannelNext]_vars

------------------------------------------------------------------------------
(* The _LearnableFakeQuantize module, lines 219-366.                        *)

\* the observers a module is built with: dtype range (torch.iinfo), qscheme
\* and, for a per-channel observer, ch_axis
Observers ==
    {[dtype |-> "quint8", iinfo_min |-> 0, iinfo_max |-> 255,
      qscheme |-> "per_tensor_affine", has_ch_axis |-> FALSE, ch_axis |-> -1],
     [dtype |-> "qint8", iinfo_min |-> -128, iinfo_max |-> 127,
      qscheme |-> "per_tensor_symmetric", has_ch_axis |-> FALSE, ch_axis |-> -1],
     [dtype |-> "qint8", iinfo_min |-> -128, iinfo_max |-> 127,
      qscheme |-> "per_channel_symmetric", has_ch_axis |-> TRUE, ch_axis |-> 0]}

CtorRanges == {<<0, 3>>, <<-2, 1>>, <<3, 3>>, <<1, 0>>, <<0, 256>>}
CtorChannelLens == {-1, 0, 2}
CtorZeroPoints == {RZero, Rat(7, 10)}

\* tensors handed to the module's forward: shape (2, 1)
ModuleInputs ==
    {[i \in Index2D(1) |-> IF i[1] = 1 THEN a ELSE b] :
        <<a, b>> \in {<<Rat(1, 4), RInt(2)>>, <<RInt(-1), Rat(1, 4)>>,
                      <<RInt(2), RInt(2)>>}}

\* (scale, zero_point) estimates an observer may return
ObserverQParams == {<<RHalf, RZero>>, <<ROne, ROne>>}

RECURSIVE FloorLog2(_)
FloorLog2(n) == IF n <= 1 THEN 0 ELSE 1 + FloorLog2(n \div 2)

Repeat(v, n) == [c \in 1..n |-> v]

\* __init__, lines 243-273: the module it leaves behind. An assertion that
\* fails leaves only the attributes assigned before it.
construct_check_late(observer, quant_min, quant_max, scale, zero_point, channel_len, use_grad_scaling) ==
    LET ctor == [observer |-> observer, quant_min |-> quant_min,
                 quant_max |-> quant_max, scale |-> scale,
                 zero_point |-> zero_point, channel_len |-> channel_len,
                 use_grad_scaling |-> use_grad_scaling]
        failed(msg, attrs) ==
            [status |-> "error", error |-> msg, ctor |-> ctor, attrs |-> attrs]
        a1 == [quant_min |-> quant_min, quant_max |-> quant_max,
               use_grad_scaling |-> use_grad_scaling]
        n == IF channel_len = -1 THEN 1 ELSE channel_len
        a2 == a1 @@ [scale |-> Repeat(scale, n), zero_point |-> Repeat(zero_point, n),
                     requires_grad |-> TRUE]
        a3 == a2 @@ [activation_post_process |-> observer]
        a4 == a3 @@ [dtype |-> observer.dtype, qscheme |-> observer.qscheme,
                     ch_axis |-> IF observer.has_ch_axis THEN observer.ch_axis ELSE -1,
                     fake_quant_enabled |-> 1, static_enabled |-> 1,
                     learning_enabled |-> 0,
                     bitwidth |-> FloorLog2(quant_max - quant_min + 1)]
    IN  IF channel_len # -1 /\ ~(channel_len > 0)
            THEN failed("Channel size must be a positive integer.", a1)
        ELSE IF ~(quant_min < quant_max)
            THEN failed("quant_min must be strictly less than quant_max.", a2)
        ELSE IF ~(observer.iinfo_min <= quant_min)
            THEN failed("quant_min out of bound", a3)
        ELSE IF ~(quant_max <= observer.iinfo_max)
            THEN failed("quant_max out of bound", a3)
        ELSE [status |-> "constructed", error |-> None, ctor |-> ctor, attrs |-> a4]

construct(observer, quant_min, quant_max, scale, zero_point, channel_len, use_grad_scaling) ==
    LET ctor == [observer |-> observer, quant_min |-> quant_min,
                 quant_max |-> quant_max, scale |-> scale,
                 zero_point |-> zero_point, channel_len |-> channel_len,
                 use_grad_scaling |-> use_grad_scaling]
        failed(msg, attrs) ==
            [status |-> "error", error |-> msg, ctor |-> ctor, attrs |-> attrs]
        a0 == [x \in {} |-> None]
        a1 == [quant_min |-> quant_min, quant_max |-> quant_max,
               use_grad_scaling |-> use_grad_scaling]
        n == IF channel_len = -1 THEN 1 ELSE channel_len
        a2 == a1 @@ [scale |-> Repeat(scale, n), zero_point |-> Repeat(zero_point, n),
                     requires_grad |-> TRUE]
        a3 == a2 @@ [activation_post_process |-> observer]
        a4 == a3 @@ [dtype |-> observer.dtype, qscheme |-> observer.qscheme,
                     ch_axis |-> IF observer.has_ch_axis THEN observer.ch_axis ELSE -1,
                     fake_quant_enabled |-> 1, static_enabled |-> 1,
                     learning_enabled |-> 0,
                     bitwidth |-> FloorLog2(quant_max - quant_min + 1)]
    IN  IF ~(quant_min < quant_max)
            THEN failed("quant_min must be strictly less than quant_max.", a0)
        ELSE IF channel_len # -1 /\ ~(channel_len > 0)
            THEN failed("Channel size must be a positive integer.", a1)
        ELSE IF ~(observer.iinfo_min <= quant_min)
            THEN failed("quant_min out of bound", a3)
        ELSE IF ~(quant_max <= observer.iinfo_max)
            THEN failed("quant_max out of bound", a3)
        ELSE [status |-> "constructed", error |-> None, ctor |-> ctor, attrs |-> a4]

\* toggle_observer_update, toggle_qparam_learning, toggle_fake_quant on the
\* attributes
toggle_observer_update(a, enabled) ==
    [a EXCEPT !.static_enabled = IF enabled THEN 1 ELSE 0]

toggle_qparam_learning(a, enabled) ==
    [a EXCEPT !.learning_enabled = IF enabled THEN 1 ELSE 0,
              !.requires_grad = enabled]

toggle_fake_quant(a, enabled) ==
    [a EXCEPT !.fake_quant_enabled = IF enabled THEN 1 ELSE 0]

\* enable_param_learning that leaves the observer update as it was
enable_param_learning_keeps_observer(a) ==
    toggle_fake_quant(toggle_qparam_learning(a, TRUE), TRUE)

enable_param_learning(a) ==
    toggle_observer_update(
        toggle_fake_quant(toggle_qparam_learning(a, TRUE), TRUE), FALSE)

enable_static_estimate(a) ==
    toggle_observer_update(
        toggle_fake_quant(toggle_qparam_learning(a, FALSE), TRUE), TRUE)

enable_static_observation(a) ==
    toggle_observer_update(
        toggle_fake_quant(toggle_qparam_learning(a, FALSE), FALSE), TRUE)

\* the observer called on X: it accumulates the running range of its inputs
observe(o, X) ==
    LET lo == CHOOSE v \in {X[i] : i \in DOMAIN X} :
                  \A w \in {X[i] : i \in DOMAIN X} : RLe(v, w)
        hi == CHOOSE v \in {X[i] : i \in DOMAIN X} :
                  \A w \in {X[i] : i \in DOMAIN X} : RLe(w, v)
    IN  [seen |-> TRUE,
         min_val |-> IF o.seen /\ RLe(o.min_val, lo) THEN o.min_val ELSE lo,
         max_val |-> IF o.seen /\ RLe(hi, o.max_val) THEN o.max_val ELSE hi]

\* what calculate_qparams may return for X: one (scale, zero_point) pair for
\* a per-tensor observer, one pair per channel for a per-channel observer
QParamsFor(a, X) ==
    LET n == IF a.activation_post_process.has_ch_axis
             THEN SizeAlong(X, a.ch_axis) ELSE 1
    IN  {[scale |-> [c \in 1..n |-> (IF c % 2 = 1 THEN p ELSE q)[1]],
          zero_point |-> [c \in 1..n |-> (IF c % 2 = 1 THEN p ELSE q)[2]]] :
            p \in ObserverQParams, q \in ObserverQParams}

\* Tensor.copy_(src): src broadcasts to the parameter's shape or the copy fails
copy_fits(param, src) == Len(src) = 1 \/ Len(src) = Len(param)
copy_(param, src) == [c \in DOMAIN param |-> IF Len(src) = 1 THEN src[1] ELSE src[c]]

IsPerChannel(qscheme) ==
    qscheme \in {"per_channel_symmetric", "per_channel_affine"}

\* forward(X), lines 339-366, once the observer ran and the static estimates
\* were copied: the attributes it leaves and its outcome. Line 341 calls the
\* out-of-place zero_point.clamp and drops the result: no effect. qp is what calculate_qparams returned;
\* native_takes_float_zp tells whether the native per-channel primitive
\* accepts the float zero_point tensor of line 359 (converting it by
\* truncation) or rejects it.
forward_after_copy(a, X, qp, native_takes_float_zp) ==
    LET a1 == a
        raised(msg) == [attrs |-> a1,
                        ret |-> [call |-> "forward", X |-> X, error |-> msg]]
        returned(out, path, factor) ==
            [attrs |-> a1,
             ret |-> [call |-> "forward", X |-> X, error |-> None, out |-> out,
                      path |-> path, grad_factor |-> factor]]
        \* no kernel of this file is called: no grad factor
        returned_plain(out, path) ==
            [attrs |-> a1,
             ret |-> [call |-> "forward", X |-> X, error |-> None, out |-> out,
                      path |-> path]]
        scale_factor == ROne
    IN  IF a1.fake_quant_enabled = 1
        THEN IF a1.learning_enabled = 1
             THEN IF a1.use_grad_scaling
                  THEN raised("AttributeError: weight")
                  ELSE IF IsPerChannel(a1.qscheme)
                       THEN IF Len(a1.scale) # SizeAlong(X, a1.ch_axis)
                            THEN raised("shape-mismatch")
                            ELSE returned(
                                     PerChannelForward(
                                         X, a1.scale, a1.zero_point, a1.ch_axis,
                                         a1.quant_min, a1.quant_max,
                                         scale_factor).result,
                                     "learnable_per_channel", scale_factor)
                       ELSE IF Len(a1.scale) # 1
                            THEN raised("shape-mismatch")
                            ELSE returned(
                                     PerTensorForward(
                                         X, a1.scale[1], a1.zero_point[1],
                                         a1.quant_min, a1.quant_max,
                                         scale_factor).result,
                                     "learnable_per_tensor", scale_factor)
             ELSE IF IsPerChannel(a1.qscheme)
                  THEN IF Len(a1.scale) # SizeAlong(X, a1.ch_axis)
                       THEN raised("shape-mismatch")
                       ELSE IF ~native_takes_float_zp
                       THEN raised("zero-point-dtype")
                       ELSE returned_plain(
                                fake_quantize_per_channel_affine(
                                    X, a1.scale,
                                    [c \in DOMAIN a1.zero_point |->
                                        RTrunc(a1.zero_point[c])],
                                    a1.ch_axis, a1.quant_min, a1.quant_max),
                                "fast_per_channel")
                  ELSE IF Len(a1.scale) # 1
                       THEN raised("shape-mismatch")
                       ELSE returned_plain(
                                fake_quantize_per_tensor_affine(
                                    X, a1.scale[1], RTrunc(a1.zero_point[1]),
                                    a1.quant_min, a1.quant_max),
                                "fast_per_tensor")
        ELSE returned_plain(X, "identity")

\* forward(X) with the grad-scaling factor computed on entry, whatever the mode
forward_reads_weight_early(a, X, qp, native_takes_float_zp) ==
    IF a.use_grad_scaling
    THEN [attrs |-> a,
          ret |-> [call |-> "forward", X |-> X, error |-> "AttributeError: weight"]]
    ELSE IF a.static_enabled = 1 /\ ~copy_fits(a.scale, qp.scale)
    THEN [attrs |-> a, ret |-> [call |-> "forward", X |-> X, error |-> "shape-mismatch"]]
    ELSE forward_after_copy(
             IF a.static_enabled = 1
             THEN [a EXCEPT !.scale = copy_(a.scale, qp.scale),
                            !.zero_point = copy_(a.zero_point, qp.zero_point)]
             ELSE a,
             X, qp, native_takes_float_zp)

\* forward(X), lines 329-337, then the rest
forward(a, X, qp, native_takes_float_zp) ==
    IF a.static_enabled = 1 /\ ~copy_fits(a.scale, qp.scale)
    THEN [attrs |-> a, ret |-> [call |-> "forward", X |-> X, error |-> "shape-mismatch"]]
    ELSE forward_after_copy(
             IF a.static_enabled = 1
             THEN [a EXCEPT !.scale = copy_(a.scale, qp.scale),
                            !.zero_point = copy_(a.zero_point, qp.zero_point)]
             ELSE a,
             X, qp, native_takes_float_zp)

------------------------------------------------------------------------------
(* The module's life: construction, mode changes and forward calls.         *)

Constructed == mod.status = "constructed"

Init ==
    /\ KernelIdle
    /\ ModuleIdle

Construct ==
    /\ mod.status = "unconstructed"
    /\ \E observer \in Observers, r \in CtorRanges, z \in CtorZeroPoints,
          n \in CtorChannelLens, g \in BOOLEAN :
        mod' = construct(observer, r[1], r[2], ROne, z, n, g)
    /\ UNCHANGED <<obs, ret, kernelVars>>

EnableParamLearning ==
    /\ Constructed
    /\ mod' = [mod EXCEPT !.attrs = enable_param_learning(mod.attrs)]
    /\ UNCHANGED <<obs, ret, kernelVars>>

EnableStaticEstimate ==
    /\ Constructed
    /\ mod' = [mod EXCEPT !.attrs = enable_static_estimate(mod.attrs)]
    /\ UNCHANGED <<obs, ret, kernelVars>>

EnableStaticObservation ==
    /\ Constructed
    /\ mod' = [mod EXCEPT !.attrs = enable_static_observation(mod.attrs)]
    /\ UNCHANGED <<obs, ret, kernelVars>>

ToggleObserverUpdate ==
    /\ Constructed
    /\ \E enabled \in BOOLEAN :
        mod' = [mod EXCEPT !.attrs = toggle_observer_update(mod.attrs, enabled)]
    /\ UNCHANGED <<obs, ret, kernelVars>>

ToggleQparamLearning ==
    /\ Constructed
    /\ \E enabled \in BOOLEAN :
        mod' = [mod EXCEPT !.attrs = toggle_qparam_learning(mod.attrs, enabled)]
    /\ UNCHANGED <<obs, ret, kernelVars>>

ToggleFakeQuant ==
    /\ Constructed
    /\ \E enabled \in BOOLEAN :
        mod' = [mod EXCEPT !.attrs = toggle_fake_quant(mod.attrs, enabled)]
    /\ UNCHANGED <<obs, ret, kernelVars>>

Forward ==
    /\ Constructed
    /\ \E X \in ModuleInputs, native_takes_float_zp \in BOOLEAN :
        \E qp \in QParamsFor(mod.attrs, X) :
            \E r \in {forward(mod.attrs, X, qp, native_takes_float_zp)} :
                /\ obs' = observe(obs, X)
                /\ mod' = [mod EXCEPT !.attrs = r.attrs]
                /\ ret' = r.ret
    /\ UNCHANGED kernelVars

Next ==
    \/ Construct
    \/ EnableParamLearning
    \/ EnableStaticEstimate
    \/ EnableStaticObservation
    \/ ToggleObserverUpdate
    \/ ToggleQparamLearning
    \/ ToggleFakeQuant
    \/ Forward

Spec == Init /\ [][Next]_vars

\* the module driven through its three mode methods only (lines 276-301),
\* never through the individual toggles
ModeNext ==
    \/ Construct
    \/ EnableParamLearning
    \/ EnableStaticEstimate
    \/ EnableStaticObservation
    \/ Forward

ModeSpec == Init /\ [][ModeNext]_vars

------------------------------------------------------------------------------
(* The per-tensor kernel's contract, stated from the formulas of the        *)
(* specification and checked on every call of KernelSpec.                   *)

Forwarded == kpc \in {"forwarded", "done"}
Done == kpc = "done"

\* the effective integer zero-point of the call
Zp == forward_zp_val(args.zero_point, args.q_min, args.q_max)

\* round(x / scale + zp), the unclamped code of one element
Code(x) == RRound(RAdd(RDiv(x, args.scale), RInt(Zp)))

\* clamp(round(x / scale + zp), qmin, qmax), the clamped code
ClampedCode(x) == IClamp(Code(x), args.q_min, args.q_max)

ZeroPointInRange ==
    /\ RLe(RInt(args.q_min), args.zero_point)
    /\ RLe(args.zero_point, RInt(args.q_max))

IsScenario(q_min, q_max) ==
    /\ args.X = ScenarioX
    /\ args.scale = RHalf
    /\ args.zero_point = RZero
    /\ args.q_min = q_min
    /\ args.q_max = q_max

C2_ZeroAtBoundaryCode ==
    Done =>
        \A i \in DOMAIN args.X :
            grads.grad_X[i] =
                IF ClampedCode(args.X[i]) \in {args.q_min, args.q_max}
                THEN RZero ELSE grads.grad_Y[i]

\* C2 amended: dX is zero exactly at the elements whose code clamping changed
\* (the code lay outside [qmin, qmax]); dY passes through everywhere else,
\* also where the code equals qmin or qmax without having been clamped.
C2_ZeroWhereClampingActed ==
    Done =>
        \A i \in DOMAIN args.X :
            grads.grad_X[i] =
                IF ClampedCode(args.X[i]) # Code(args.X[i])
                THEN RZero ELSE grads.grad_Y[i]

C2_Witness ==
    /\ Done
    /\ \E i, j \in DOMAIN args.X :
        /\ Code(args.X[i]) = args.q_min
        /\ grads.grad_X[i] = grads.grad_Y[i]
        /\ grads.grad_Y[i] # RZero
        /\ Code(args.X[j]) > args.q_max
        /\ grads.grad_X[j] = RZero
        /\ grads.grad_Y[j] # RZero

\* an integer nearest to the rational z (either neighbour at a tie)
IsNearestInt(r, z) ==
    /\ RLe(RSub(RInt(r), z), RHalf)
    /\ RLe(RSub(z, RInt(r)), RHalf)

\* C4: the zero-point the kernel uses is zero_point rounded to the nearest
\* integer, then clamped to [qmin, qmax], and backward recomputes the same
\* value from the cached zero_point.
C4_RoundNearestThenClamp ==
    Forwarded =>
        /\ \E r \in {RFloor(args.zero_point), RFloor(args.zero_point) + 1} :
            /\ IsNearestInt(r, args.zero_point)
            /\ forward_zp_val(args.zero_point, args.q_min, args.q_max)
                   = IClamp(r, args.q_min, args.q_max)
        /\ backward_zero_point(ctx.saved_tensors.zero_point,
                               ctx.other.q_min, ctx.other.q_max)
               = forward_zp_val(args.zero_point, args.q_min, args.q_max)

\* local gradient of scale at one element, by the regime of its clamped code
LocalScale(i) ==
    IF ClampedCode(args.X[i]) = args.q_min THEN RInt(args.q_min - Zp)
    ELSE IF ClampedCode(args.X[i]) = args.q_max THEN RInt(args.q_max - Zp)
    ELSE RDiv(RSub(X_fq[i], args.X[i]), args.scale)

\* local gradient of zero_point at one element
LocalZeroPoint(i) ==
    IF ClampedCode(args.X[i]) \in {args.q_min, args.q_max}
    THEN RNeg(args.scale) ELSE RZero

\* C5: dScale = gradFactor * sum(local * dX), local being qmin - zp at a
\* clamped code of qmin, qmax - zp at qmax and (Xfq - X) / scale in between.
C5_ScaleGradient ==
    Done =>
        grads.grad_scale =
            RMul(args.grad_factor,
                 TSum([i \in DOMAIN args.X |->
                          RMul(LocalScale(i), grads.grad_X[i])]))

C5_Witness ==
    /\ Done
    /\ grads.grad_scale # RZero
    /\ \E i, j \in DOMAIN args.X :
        /\ ClampedCode(args.X[i]) \in {args.q_min, args.q_max}
        /\ RMul(LocalScale(i), grads.grad_X[i]) # RZero
        /\ ClampedCode(args.X[j]) \notin {args.q_min, args.q_max}
        /\ RMul(LocalScale(j), grads.grad_X[j]) # RZero

\* C6: dZeroPoint = gradFactor * sum(local * dX), local being -scale at a
\* clamped code of qmin or qmax and 0 in between; gradFactor scales dScale
\* and dZeroPoint and leaves dX alone.
C6_ZeroPointGradient ==
    Done =>
        /\ grads.grad_zp =
            RMul(args.grad_factor,
                 TSum([i \in DOMAIN args.X |->
                          RMul(LocalZeroPoint(i), grads.grad_X[i])]))
        /\ \A i \in DOMAIN args.X : grads.grad_X[i] \in {RZero, grads.grad_Y[i]}

C6_Witness ==
    /\ Done
    /\ args.grad_factor # ROne
    /\ grads.grad_zp # RZero
    /\ \E i, j \in DOMAIN args.X :
        /\ Code(args.X[i]) = args.q_max
        /\ grads.grad_X[i] = grads.grad_Y[i]
        /\ ClampedCode(args.X[j]) \notin {args.q_min, args.q_max}
        /\ grads.grad_X[j] = grads.grad_Y[j]

\* C7: quantize((q - zp) * scale, scale, zp, qmin, qmax) = q for every code q
\* and integer zero-point zp of the range, and forward applied to its own
\* output returns it unchanged.
C7_RequantizeIsNoOp ==
    /\ \A zp \in args.q_min..args.q_max : \A q \in args.q_min..args.q_max :
          quantize(RMul(RInt(q - zp), args.scale), args.scale, zp,
                   args.q_min, args.q_max, TRUE) = q
    /\ Forwarded =>
          PerTensorForward(X_fq, args.scale, args.zero_point, args.q_min,
                           args.q_max, args.grad_factor).result = X_fq

C7_Witness ==
    /\ Forwarded
    /\ X_fq # args.X
    /\ args.scale # ROne
    /\ PerTensorForward(X_fq, args.scale, args.zero_point, args.q_min,
                        args.q_max, args.grad_factor).result = X_fq

\* C10: dX passes dY through where qmin <= round(X/scale + zp) <= qmax and is
\* zero elsewhere; on X = [0, 0.4, 0.6, 1], scale 0.5, zero_point 0, range
\* [0, 1] and dY = [1, 1, 1, 1] it is [1, 1, 1, 0].
C10_PassThroughInRange ==
    Done =>
        /\ \A i \in DOMAIN args.X :
              grads.grad_X[i] =
                  IF args.q_min <= Code(args.X[i]) /\ Code(args.X[i]) <= args.q_max
                  THEN grads.grad_Y[i] ELSE RZero
        /\ (IsScenario(0, 1) /\ grads.grad_Y = <<ROne, ROne, ROne, ROne>>) =>
              grads.grad_X = <<ROne, ROne, ROne, RZero>>

C10_Witness ==
    /\ Done
    /\ IsScenario(0, 1)
    /\ X_fq = <<RZero, RHalf, RHalf, RHalf>>
    /\ grads.grad_Y = <<ROne, ROne, ROne, ROne>>
    /\ grads.grad_X = <<ROne, ROne, ROne, RZero>>

------------------------------------------------------------------------------
(* The per-channel kernel against the per-tensor kernel, on ChannelSpec.    *)

Channels == {i[args.ch_axis + 1] : i \in DOMAIN args.X}

\* the slice of T along the channel axis at channel c
Slice(T, c) == [i \in {j \in DOMAIN T : j[args.ch_axis + 1] = c} |-> T[i]]

\* the per-tensor forward on slice c with that channel's scalar parameters
SliceForward(c) ==
    PerTensorForward(Slice(args.X, c), args.scale[c], args.zero_point[c],
                     args.q_min, args.q_max, args.grad_factor)

\* C3: the per-channel kernel agrees with the per-tensor kernel run on each
\* slice along the channel axis with the slice's own scale and zero-point:
\* Xfq and dX element by element, dScale[c] and dZeroPoint[c] channel by
\* channel (one value per channel, summed over the other axes).
C3_PerChannelIsPerTensorPerSlice ==
    /\ Forwarded =>
          \A c \in Channels : Slice(X_fq, c) = SliceForward(c).result
    /\ Done =>
          /\ DOMAIN grads.grad_scale = Channels
          /\ DOMAIN grads.grad_zp = Channels
          /\ \A c \in Channels :
                \A g \in {PerTensorBackward(SliceForward(c), Slice(grads.grad_Y, c))} :
                    /\ Slice(grads.grad_X, c) = g.grad_X
                    /\ grads.grad_scale[c] = g.grad_scale
                    /\ grads.grad_zp[c] = g.grad_zp

C3_Witness ==
    /\ Done
    /\ args.ch_axis = 1
    /\ Cardinality(Channels) = 2
    /\ args.scale[1] # args.scale[2]
    /\ args.zero_point[1] # args.zero_point[2]
    /\ grads.grad_scale[1] # grads.grad_scale[2]
    /\ grads.grad_zp[1] # grads.grad_zp[2]
    /\ grads.grad_scale[2] # RZero
    /\ \E i, j \in DOMAIN args.X : grads.grad_X[i] = RZero /\ grads.grad_X[j] # RZero
    /\ \A c \in Channels : Slice(X_fq, c) = SliceForward(c).result

------------------------------------------------------------------------------
(* The module's contract, on Spec.                                          *)

\* C8: construction with quant_min >= quant_max fails with the
\* invalid-configuration error before any attribute of the module exists;
\* a constructed module has quant_min < quant_max and a channel_len that is
\* -1 or positive.
C8_InvalidRangeRejected ==
    /\ (mod.status # "unconstructed" /\ mod.ctor.quant_min >= mod.ctor.quant_max) =>
          /\ mod.status = "error"
          /\ mod.error = "quant_min must be strictly less than quant_max."
          /\ DOMAIN mod.attrs = {}
    /\ Constructed =>
          /\ mod.ctor.quant_min < mod.ctor.quant_max
          /\ mod.ctor.channel_len = -1 \/ mod.ctor.channel_len > 0

C8_Witness ==
    /\ mod.status = "error"
    /\ mod.ctor.quant_min >= mod.ctor.quant_max
    /\ mod.ctor.channel_len = 0
    /\ mod.error = "quant_min must be strictly less than quant_max."
    /\ DOMAIN mod.attrs = {}

InStaticObservation ==
    /\ Constructed
    /\ mod.attrs.learning_enabled = 0
    /\ mod.attrs.fake_quant_enabled = 0
    /\ mod.attrs.static_enabled = 1

\* C9: in the mode enable_static_observation() sets, a forward call that
\* returns lets the observer accumulate X, returns X itself and leaves scale
\* and zero_point as they were before the call.
C9_StaticObservationKeepsQParams ==
    [][(InStaticObservation /\ Forward /\ ret'.error = None) =>
          /\ obs' = observe(obs, ret'.X)
          /\ ret'.out = ret'.X
          /\ mod'.attrs.scale = mod.attrs.scale
          /\ mod'.attrs.zero_point = mod.attrs.zero_point]_vars

ReadsWeight(r) == r.call = "forward" /\ r.error = "AttributeError: weight"

OnLearnablePath(r) ==
    /\ r.call = "forward"
    /\ r.error = None
    /\ r.path \in {"learnable_per_tensor", "learnable_per_channel"}

\* C11: a forward call fails on the read of self.weight only when the module
\* was built with use_grad_scaling and is called with fake_quant_enabled == 1
\* and learning_enabled == 1; a module built without use_grad_scaling never
\* fails that way, and when its forward runs the learnable kernel the grad
\* factor it passes is 1.0.
C11_WeightReadOnlyUnderGradScaling ==
    [][/\ (ReadsWeight(ret') /\ Forward) =>
              /\ mod.attrs.use_grad_scaling
              /\ mod.attrs.fake_quant_enabled = 1
              /\ mod.attrs.learning_enabled = 1
       /\ (Constructed /\ ~mod.attrs.use_grad_scaling) =>
              /\ ~ReadsWeight(ret')
              /\ OnLearnablePath(ret') => ret'.grad_factor = ROne]_vars

C11_Witness ==
    /\ Constructed
    /\ ~mod.attrs.use_grad_scaling
    /\ mod.attrs.fake_quant_enabled = 1
    /\ mod.attrs.learning_enabled = 1
    /\ mod.attrs.static_enabled = 1
    /\ OnLearnablePath(ret)
    /\ ret.grad_factor = ROne

\* the failure itself is reachable: a module built with use_grad_scaling,
\* in the learning mode, has failed on self.weight
C11_FailureReached ==
    /\ Constructed
    /\ mod.attrs.use_grad_scaling
    /\ ReadsWeight(ret)

\* a fast-path call: fake quantization on, observer update off, learning off,
\* in a module whose learnable path can run (no grad scaling)
FastPathCall ==
    /\ Constructed
    /\ ~mod.attrs.use_grad_scaling
    /\ mod.attrs.fake_quant_enabled = 1
    /\ mod.attrs.static_enabled = 0
    /\ mod.attrs.learning_enabled = 0
    /\ ret'.call = "forward"
    /\ Forward
    /\ ret'.error = None

\* what forward returns for X from the same module with learning_enabled == 1
LearnableOutcome(X) ==
    forward(toggle_qparam_learning(mod.attrs, TRUE), X,
            CHOOSE qp \in QParamsFor(mod.attrs, X) : TRUE, TRUE).ret

\* C12: with fake quantization enabled and observer update disabled, forward
\* with learning_enabled == 0 returns, for the same X, scale, zero_point,
\* quant_min and quant_max, the output forward returns with
\* learning_enabled == 1.
C12_FastPathEqualsLearnablePath ==
    [][FastPathCall =>
          /\ LearnableOutcome(ret'.X).error = None
          /\ LearnableOutcome(ret'.X).out = ret'.out]_vars

\* the two paths do agree when the zero_point is a non-negative integer
\* inside [quant_min, quant_max]: the difference is in the zero-point
\* conversion alone
C12_AgreeOnIntegralZeroPoint ==
    [][(/\ FastPathCall
        /\ \A c \in DOMAIN mod.attrs.zero_point :
              /\ mod.attrs.zero_point[c].den = 1
              /\ mod.attrs.zero_point[c].num >= 0
              /\ mod.attrs.zero_point[c].num >= mod.attrs.quant_min
              /\ mod.attrs.zero_point[c].num <= mod.attrs.quant_max) =>
          /\ LearnableOutcome(ret'.X).error = None
          /\ LearnableOutcome(ret'.X).out = ret'.out]_vars

------------------------------------------------------------------------------
(* The module driven through its mode methods only, on ModeSpec.            *)

FlagTriple(a) == <<a.learning_enabled, a.fake_quant_enabled, a.static_enabled>>

\* C13: from construction on, through any sequence of enable_param_learning,
\* enable_static_estimate, enable_static_observation and forward calls, the
\* triple (learning_enabled, fake_quant_enabled, static_enabled) is (1,1,0),
\* (0,1,1) or (0,0,1); and a step taken while learning_enabled == 1, a
\* forward call included, leaves scale and zero_point as they were.
C13_ModeFlagsConsistent ==
    [][/\ mod'.status = "constructed" =>
              FlagTriple(mod'.attrs) \in {<<1, 1, 0>>, <<0, 1, 1>>, <<0, 0, 1>>}
       /\ (Constructed /\ mod.attrs.learning_enabled = 1) =>
              /\ mod'.attrs.scale = mod.attrs.scale
              /\ mod'.attrs.zero_point = mod.attrs.zero_point]_vars

\* a forward call ran the learnable kernel in the learning mode, the observer
\* saw its input, and the parameters are still the constructor's, which no
\* observer estimate equals
C13_Witness ==
    /\ Constructed
    /\ FlagTriple(mod.attrs) = <<1, 1, 0>>
    /\ OnLearnablePath(ret)
    /\ obs.seen
    /\ mod.attrs.zero_point = <<Rat(7, 10)>>
    /\ \A qp \in QParamsFor(mod.attrs, ret.X) : qp.zero_point # mod.attrs.zero_point

====
